---- MODULE Spec2Model ----
(***************************************************************************)
(* Eye pressure records: the grouping engine (groupRecords) and the chart  *)
(* transform (toChartData) of lib/grouping.ts, applied to bounded record   *)
(* lists.  Times are milliseconds since the epoch, as Date.getTime()       *)
(* returns them.  A record's `date` is an ISO string; it is modelled by    *)
(* the UTC calendar day and the millisecond of that day it spells out.     *)
(* Strings the code assembles (ids, labels) are sequences of characters.   *)
(* A group's `title` is a display string no operation reads back; it is    *)
(* not part of the modelled group.  A page request (Home, fetchAllRecords) *)
(* is modelled with its awaits as the points between actions; null and     *)
(* undefined are the string "null" for Home's error and 0 for a cursor.    *)
(* A mounted PressureChart is modelled by its isFullscreen state, the      *)
(* document's fullscreen element, and what the browser still has to do.    *)
(***************************************************************************)
EXTENDS Integers, Sequences, FiniteSets

VARIABLES input, pc, groups, chart, reordered, regroups,
          env, fetch, log, error, fullscreen

\* The state of a page request: the environment, fetchAllRecords' locals,
\* what the request has done so far, and Home's error.
homeVars == <<env, fetch, log, error>>

vars == <<input, pc, groups, chart, reordered, regroups, env, fetch, log, error,
          fullscreen>>

\* ------------------------------------------------------------- bounds
\* Longest record list handed to groupRecords.
MaxRecords == 3

\* Most responses the record source splits a result set into.
MaxResponses == 2

\* Most pages the record source holds.
MaxPages == 3

\* Most clicks on a chart's fullscreen button.
MaxClicks == 3

\* ---------------------------------------------------------- constants
THIRTY_HOURS_MS == 30 * 60 * 60 * 1000

MS_PER_MINUTE == 60000

MINUTE_MS == 60 * 1000
HOUR_MS == 60 * MINUTE_MS
DAY_MS == 24 * HOUR_MS

\* ------------------------------------------------------ dates, strings
\* Date.prototype.toISOString: the UTC calendar day and time of day of an instant.
toISOString(t) == [day |-> t \div DAY_MS, ms |-> t % DAY_MS]

\* new Date(isoString).getTime(): the instant an ISO string denotes.
getTime(date) == date.day * DAY_MS + date.ms

DigitChars == <<"0", "1", "2", "3", "4", "5", "6", "7", "8", "9">>

RECURSIVE NatToString(_)
NatToString(n) ==
  IF n < 10 THEN <<DigitChars[n + 1]>>
  ELSE NatToString(n \div 10) \o <<DigitChars[(n % 10) + 1]>>

\* Number to string, as a template literal `${n}` renders an integer.
NumberToString(n) == IF n < 0 THEN <<"-">> \o NatToString(-n) ELSE NatToString(n)

\* String.prototype.padStart(2, "0") of a number's decimal string.
padStart2(n) == IF n < 10 THEN <<"0">> \o NatToString(n) ELSE NatToString(n)

\* ------------------------------------------------------------ sorting
\* The comparator handed to Array.prototype.sort.
compareByDate(a, b) == getTime(a.date) - getTime(b.date)

\* Array.prototype.sort with compareByDate: ascending, and stable (elements
\* that compare equal keep their relative order).  rank is the 1-based
\* position the element at index i ends up at.
sortRank(arr, i) ==
  Cardinality({j \in 1..Len(arr) :
                 \/ compareByDate(arr[j], arr[i]) < 0
                 \/ (compareByDate(arr[j], arr[i]) = 0 /\ j <= i)})

\* Variant: the copy is taken and never sorted.
copyUnsorted(arr) == arr

\* [...arr].sort(compareByDate): a sorted copy.
sortByDate(arr) ==
  [k \in 1..Len(arr) |-> arr[CHOOSE i \in 1..Len(arr) : sortRank(arr, i) = k]]

\* ------------------------------------------------------- groupRecords
filter24h(records) == SelectSeq(records, LAMBDA r : r.is24h)

filterRegular(records) == SelectSeq(records, LAMBDA r : ~r.is24h)

RegularId == <<"r", "e", "g", "u", "l", "a", "r">>

\* Variant: the id leaves out the first record's timestamp.
create24hIdNoStamp(records) == <<"2", "4", "h">>

\* `24h-${firstDate.getTime()}`
create24hId(records) ==
  <<"2", "4", "h", "-">> \o NumberToString(getTime(records[1].date))

create24hGroup(records) ==
  [id |-> create24hId(records), type |-> "24h", records |-> records]

\* Variant: the regular records are grouped in the order they came in.
regularGroupsUnsorted(regularRecords) ==
  IF Len(regularRecords) > 0
  THEN <<[id |-> RegularId, type |-> "regular", records |-> regularRecords]>>
  ELSE <<>>

\* Variant: the regular group is pushed without the length test.
regularGroupsUnguarded(regularRecords) ==
  <<[id |-> RegularId, type |-> "regular",
     records |-> sortByDate(regularRecords)]>>

\* The regular group, pushed first when there is a regular record.
regularGroups(regularRecords) ==
  IF Len(regularRecords) > 0
  THEN <<[id |-> RegularId, type |-> "regular",
          records |-> sortByDate(regularRecords)]>>
  ELSE <<>>

\* Variant: the window slides, measured from the current group's last record.
timeDiffFromLast(record, currentGroup) ==
  getTime(record.date) - getTime(currentGroup[Len(currentGroup)].date)

\* Time from the current group's first record to the record at hand.
timeDiff(record, currentGroup) ==
  getTime(record.date) - getTime(currentGroup[1].date)

\* Variant: a record exactly 30 hours after the first is left out.
withinWindowStrict(diff) == diff < THIRTY_HOURS_MS

withinWindow(diff) == diff <= THIRTY_HOURS_MS

\* Variant: the group still open when the loop ends is never pushed.
dropLastGroup(out, currentGroup) == out

\* "Add last group".
pushLastGroup(out, currentGroup) ==
  IF Len(currentGroup) > 0 THEN Append(out, create24hGroup(currentGroup)) ELSE out

\* The for loop over sorted[i], i being 1-based here, with the groups closed
\* so far in out.
RECURSIVE scan24h(_, _, _, _)
scan24h(sorted, i, currentGroup, out) ==
  IF i > Len(sorted) THEN pushLastGroup(out, currentGroup)
  ELSE IF withinWindow(timeDiff(sorted[i], currentGroup))
       THEN scan24h(sorted, i + 1, Append(currentGroup, sorted[i]), out)
       ELSE scan24h(sorted, i + 1, <<sorted[i]>>,
                    Append(out, create24hGroup(currentGroup)))

groups24h(records24h) ==
  IF Len(records24h) > 0
  THEN LET sorted == sortByDate(records24h)
       IN  scan24h(sorted, 2, <<sorted[1]>>, <<>>)
  ELSE <<>>

\* Variant: the 24h groups are pushed before the regular group.
groupRecords24hFirst(records) ==
  groups24h(filter24h(records)) \o regularGroups(filterRegular(records))

groupRecords(records) ==
  regularGroups(filterRegular(records)) \o groups24h(filter24h(records))

\* Variant: the caller's array itself is sorted, not a copy of it.
recordsSortedInPlace(records) == sortByDate(records)

\* The caller's array after groupRecords returns: filter and [...x] build new
\* arrays, and only those are sorted or pushed to.
recordsAfterGroupRecords(records) == records

\* -------------------------------------------------------- toChartData
\* The calendar of a local day, day 0 being 1970-01-01.  Instants are 32-bit
\* millisecond counts here, which lie in December 1969 and January 1970.
getFullYear(localDay) == IF localDay < 0 THEN 1969 ELSE 1970

getMonth(localDay) == IF localDay < 0 THEN 12 ELSE 1

dayOfMonth(localDay) == IF localDay < 0 THEN localDay + 32 ELSE localDay + 1

\* The local-time getters of Date, tz being the zone's offset from UTC in ms.
localDayOf(t, tz) == (t + tz) \div DAY_MS

getDate(t, tz) == dayOfMonth(localDayOf(t, tz))

getHours(t, tz) == ((t + tz) % DAY_MS) \div HOUR_MS

getMinutes(t, tz) == ((t + tz) % HOUR_MS) \div MINUTE_MS

\* formatTime: HH:mm
formatTime(t, tz) == padStart2(getHours(t, tz)) \o <<":">> \o padStart2(getMinutes(t, tz))

\* formatDate: toLocaleDateString("zh-CN", 2-digit month and day): YYYY/MM/DD
formatDate(t, tz) ==
  LET d == localDayOf(t, tz)
  IN  NatToString(getFullYear(d)) \o <<"/">> \o padStart2(getMonth(d))
      \o <<"/">> \o padStart2(dayOfMonth(d))

\* Variant: Math.floor in place of Math.round.
floorMinutes(ms) == ms \div MS_PER_MINUTE

\* Math.round(ms / 60000): to the nearest minute, halves upwards.
roundMinutes(ms) == (2 * ms + MS_PER_MINUTE) \div (2 * MS_PER_MINUTE)

\* Variant: the average is rounded to a whole number.
averageRounded(left, right) ==
  [int |-> (left + right + 1) \div 2, half2 |-> 0]

\* (left + right) / 2, kept exact: int + half2 / 2.
average(left, right) ==
  [int |-> (left + right) \div 2, half2 |-> (left + right) % 2]

\* Variant: the time alone, whatever the day.
chartLabelNoDayMark(type, t, firstT, tz) ==
  IF type = "24h" THEN formatTime(t, tz) ELSE formatDate(t, tz)

chartLabel(type, t, firstT, tz) ==
  IF type = "24h"
  THEN IF getDate(t, tz) # getDate(firstT, tz)
       THEN <<"+", "1", " ">> \o formatTime(t, tz)
       ELSE formatTime(t, tz)
  ELSE formatDate(t, tz)

\* Variant: the left and right readings change places.
chartPointSwapped(group, record, tz) ==
  LET firstTimestamp == getTime(group.records[1].date)
      t == getTime(record.date)
  IN  [label |-> chartLabel(group.type, t, firstTimestamp, tz),
       left |-> record.right,
       right |-> record.left,
       average |-> average(record.left, record.right),
       dateStr |-> record.date,
       minutesFromStart |-> roundMinutes(t - firstTimestamp)]

\* Variant: minutes are counted from the group's last record.
chartPointFromLast(group, record, tz) ==
  LET firstTimestamp == getTime(group.records[Len(group.records)].date)
      t == getTime(record.date)
  IN  [label |-> chartLabel(group.type, t, firstTimestamp, tz),
       left |-> record.left,
       right |-> record.right,
       average |-> average(record.left, record.right),
       dateStr |-> record.date,
       minutesFromStart |-> roundMinutes(t - firstTimestamp)]

chartPoint(group, record, tz) ==
  LET firstTimestamp == getTime(group.records[1].date)
      t == getTime(record.date)
  IN  [label |-> chartLabel(group.type, t, firstTimestamp, tz),
       left |-> record.left,
       right |-> record.right,
       average |-> average(record.left, record.right),
       dateStr |-> record.date,
       minutesFromStart |-> roundMinutes(t - firstTimestamp)]

toChartData(group, tz) ==
  IF Len(group.records) = 0 THEN <<>>
  ELSE [k \in 1..Len(group.records) |-> chartPoint(group, group.records[k], tz)]

\* The group handed to toChartData after it returns: map builds a new array
\* and nothing is assigned to the group or its records.
groupAfterToChartData(group) == group

\* ------------------------------------------------- fetchAllRecords
\* A value of process.env: not set, set to the empty string, or set.
EnvValues == {"undefined", "", "value"}

\* !value
isFalsy(value) == value \in {"undefined", ""}

\* The pages a query may return.  Every property is present or not; the Date
\* property holds a day with a time of day, a day alone, or a string that
\* is no date.
DatedPage ==
  [Date |-> [present |-> TRUE, valid |-> TRUE, day |-> 1, hasTime |-> TRUE, ms |-> 8 * HOUR_MS],
   Name |-> [present |-> TRUE, text |-> "OD"],
   Left |-> [present |-> TRUE, number |-> 18],
   Right |-> [present |-> TRUE, number |-> 23],
   is24h |-> [present |-> TRUE, checkbox |-> TRUE],
   Note |-> [present |-> TRUE, text |-> "after coffee"]]

SparsePage ==
  [Date |-> [present |-> TRUE, valid |-> TRUE, day |-> 3, hasTime |-> FALSE, ms |-> 0],
   Name |-> [present |-> FALSE, text |-> ""],
   Left |-> [present |-> FALSE, number |-> 0],
   Right |-> [present |-> FALSE, number |-> 0],
   is24h |-> [present |-> FALSE, checkbox |-> FALSE],
   Note |-> [present |-> FALSE, text |-> ""]]

DatelessPage ==
  [Date |-> [present |-> FALSE, valid |-> FALSE, day |-> 0, hasTime |-> FALSE, ms |-> 0],
   Name |-> [present |-> TRUE, text |-> "OS"],
   Left |-> [present |-> TRUE, number |-> 15],
   Right |-> [present |-> TRUE, number |-> 16],
   is24h |-> [present |-> FALSE, checkbox |-> FALSE],
   Note |-> [present |-> FALSE, text |-> ""]]

InvalidDatePage ==
  [Date |-> [present |-> TRUE, valid |-> FALSE, day |-> 0, hasTime |-> FALSE, ms |-> 0],
   Name |-> [present |-> TRUE, text |-> "OD"],
   Left |-> [present |-> TRUE, number |-> 21],
   Right |-> [present |-> TRUE, number |-> 19],
   is24h |-> [present |-> TRUE, checkbox |-> FALSE],
   Note |-> [present |-> FALSE, text |-> ""]]

PageProperties == {DatedPage, SparsePage, DatelessPage, InvalidDatePage}

\* The page at position i of response r, with a page id of its own.
MkPage(r, i, props) == [id |-> <<r, i>>, hasProperties |-> TRUE, properties |-> props]

\* new Date(dateValue): a day alone is midnight UTC of that day.
parseDate(start) == start.day * DAY_MS + (IF start.hasTime THEN start.ms ELSE 0)

\* transformNotionPage: no record (null) or one record, as a sequence.  On a
\* string that is no date toISOString throws a RangeError, which the catch
\* block turns into null.
transformNotionPage(page) ==
  LET props == page.properties
  IN  IF ~props.Date.present THEN <<>>
      ELSE IF ~props.Date.valid THEN <<>>
      ELSE <<[id |-> page.id,
              name |-> IF props.Name.present THEN props.Name.text ELSE "",
              date |-> toISOString(parseDate(props.Date)),
              left |-> IF props.Left.present THEN props.Left.number ELSE 0,
              right |-> IF props.Right.present THEN props.Right.number ELSE 0,
              is24h |-> IF props.is24h.present THEN props.is24h.checkbox ELSE FALSE,
              note |-> IF props.Note.present THEN props.Note.text ELSE ""]>>

\* Variant: the loop over a response's pages ends at the first page that
\* gives no record.
RECURSIVE pushUntilDropped(_, _)
pushUntilDropped(records, results) ==
  IF results = <<>> THEN records
  ELSE IF ~results[1].hasProperties \/ transformNotionPage(results[1]) = <<>>
       THEN records
       ELSE pushUntilDropped(records \o transformNotionPage(results[1]), Tail(results))

\* for (const page of response.results): push the record of every page that
\* has properties and gives one.
RECURSIVE pushRecords(_, _)
pushRecords(records, results) ==
  IF results = <<>> THEN records
  ELSE pushRecords(
         IF results[1].hasProperties
         THEN records \o transformNotionPage(results[1])
         ELSE records,
         Tail(results))

\* Variant: the cursor is never carried over.
nextCursorNone(response) == 0

\* response.has_more ? response.next_cursor ?? undefined : undefined
nextCursor(response) == IF response.has_more THEN response.next_cursor ELSE 0

\* ------------------------------------------------------------- Home
Null == "null"

MissingConfigMessage == "Missing Notion configuration in environment variables"

MissingDatabaseIdMessage == "NOTION_DATABASE_ID is not set"

\* Variant: Home tests the database id alone, as fetchAllRecords does.
configMissingDatabaseIdOnly(e) == isFalsy(e.NOTION_DATABASE_ID)

\* !process.env.NOTION_DATABASE_ID || !process.env.NOTION_AUTH_TOKEN
configMissing(e) == isFalsy(e.NOTION_DATABASE_ID) \/ isFalsy(e.NOTION_AUTH_TOKEN)

\* What a rejected query throws: an Error with a message or with an
\* empty one, or something that is no Error.
Thrown == {[isError |-> TRUE, message |-> "Request to Notion API failed"],
           [isError |-> TRUE, message |-> ""],
           [isError |-> FALSE, message |-> ""]}

\* err instanceof Error ? err.message : "Unknown error"
errorMessage(err) == IF err.isError THEN err.message ELSE "Unknown error"

\* Variant: the catch block keeps the groups of the pages fetched so far.
groupsOnErrorPartial(records) == groupRecords(records)

\* Home's groups when the catch block has run: still the initial [].
groupsOnError(records) == <<>>

\* MainContent: the error view (with the Retry button), the "No data" view,
\* or the list of groups.
view(gs, err) ==
  IF err # Null /\ err # "" THEN "error"
  ELSE IF Len(gs) = 0 THEN "empty" ELSE "groups"

NoFetch == [cursor |-> 0, records |-> <<>>]

\* What the request has done so far: the start_cursor of every query sent,
\* the responses received, whether a query was rejected, and the number of
\* calls of groupRecords.
NoLog == [sent |-> <<>>, responses |-> <<>>, rejected |-> FALSE, groupCalls |-> 0]

\* No page request is under way.
NoRequest ==
  /\ env = [NOTION_DATABASE_ID |-> "undefined", NOTION_AUTH_TOKEN |-> "undefined"]
  /\ fetch = NoFetch
  /\ log = NoLog
  /\ error = Null

\* ----------------------------------------------------- PressureChart
\* A chart as mounted: useState(false), no fullscreen element, nothing for
\* the browser to do.  `supported` tells whether the container element has a
\* requestFullscreen method at all.
NoFullscreen ==
  [isFullscreen |-> FALSE, fullscreenElement |-> FALSE, pending |-> <<>>,
   clicks |-> 0, supported |-> TRUE]

\* A sequence without its element at position i.
removeAt(seq, i) == [k \in 1..(Len(seq) - 1) |-> IF k < i THEN seq[k] ELSE seq[k + 1]]

\* ------------------------------------------------------ model inputs
\* Instants of the record lists: a start, and 10h, 29h59m, 30h, 31h and 62h
\* after it.
StartMs == 8 * HOUR_MS

Times ==
  {StartMs, StartMs + 10 * HOUR_MS, StartMs + 30 * HOUR_MS - MINUTE_MS,
   StartMs + 30 * HOUR_MS, StartMs + 31 * HOUR_MS, StartMs + 62 * HOUR_MS}

MkRecord(i, t, f) ==
  [id |-> i, name |-> "", date |-> toISOString(t),
   left |-> 10 + 3 * i, right |-> 25 - 2 * i, is24h |-> f, note |-> ""]

\* The record list of n records with instants ts and mode flags fl.
MkInput(n, ts, fl) == [i \in 1..n |-> MkRecord(i, ts[i], fl[i])]

\* Offsets from UTC of the zones the page is viewed in: UTC, UTC+8, UTC-5.
TZOffsets == {0, 8 * HOUR_MS, -(5 * HOUR_MS)}

\* The reorderings of a list of n elements that move something.
Reorderings(n) ==
  {p \in [1..n -> 1..n] :
     /\ \A i, j \in 1..n : p[i] = p[j] => i = j
     /\ \E i \in 1..n : p[i] # i}

NoChart == [group |-> 0, tz |-> 0, points |-> <<>>]

\* ------------------------------------------------------ state machine
Init ==
  /\ \E n \in 0..MaxRecords :
       \E ts \in [1..n -> Times], fl \in [1..n -> BOOLEAN] :
         input = MkInput(n, ts, fl)
  /\ pc = "start"
  /\ groups = <<>>
  /\ chart = NoChart
  /\ reordered = <<>>
  /\ regroups = <<>>
  /\ NoRequest
  /\ fullscreen = NoFullscreen

\* Home: groups = groupRecords(records)
GroupRecords ==
  /\ pc = "start"
  /\ groups' = groupRecords(input)
  /\ input' = recordsAfterGroupRecords(input)
  /\ pc' = "grouped"
  /\ UNCHANGED <<chart, reordered, regroups>>
  /\ UNCHANGED homeVars
  /\ UNCHANGED fullscreen

\* RecordGroup: chartData = toChartData(group), for one of the groups and in
\* the viewer's time zone.
ToChartData ==
  /\ pc = "grouped"
  /\ \E g \in 1..Len(groups), tz \in TZOffsets :
       /\ chart' = [group |-> g, tz |-> tz, points |-> toChartData(groups[g], tz)]
       /\ groups' = [groups EXCEPT ![g] = groupAfterToChartData(groups[g])]
  /\ pc' = "charted"
  /\ UNCHANGED <<input, reordered, regroups>>
  /\ UNCHANGED homeVars
  /\ UNCHANGED fullscreen

\* groupRecords called on the same records in another order.
GroupRecordsReordered ==
  /\ pc = "grouped"
  /\ \E p \in Reorderings(Len(input)) :
       /\ reordered' = [i \in 1..Len(input) |-> input[p[i]]]
       /\ regroups' = groupRecords(reordered')
  /\ pc' = "regrouped"
  /\ UNCHANGED <<input, groups, chart>>
  /\ UNCHANGED homeVars
  /\ UNCHANGED fullscreen

Next == GroupRecords \/ ToChartData \/ GroupRecordsReordered

Spec == Init /\ [][Next]_vars

\* ------------------------------------------------------ page request
\* The pages of the responses received so far, in the order received.
RECURSIVE receivedPages(_)
receivedPages(responses) ==
  IF responses = <<>> THEN <<>>
  ELSE responses[1].results \o receivedPages(Tail(responses))

InitHome ==
  /\ env \in [NOTION_DATABASE_ID : EnvValues, NOTION_AUTH_TOKEN : EnvValues]
  /\ pc = "home"
  /\ input = <<>>
  /\ groups = <<>>
  /\ error = Null
  /\ fetch = NoFetch
  /\ log = NoLog
  /\ chart = NoChart
  /\ reordered = <<>>
  /\ regroups = <<>>
  /\ fullscreen = NoFullscreen

\* Home up to its await: the configuration check, then fetchAllRecords up to
\* the first query, sent with start_cursor undefined.
HomeRequest ==
  /\ pc = "home"
  /\ IF configMissing(env)
     THEN /\ error' = MissingConfigMessage
          /\ groups' = groupsOnError(<<>>)
          /\ pc' = "rendered"
          /\ UNCHANGED <<fetch, log>>
     ELSE IF isFalsy(env.NOTION_DATABASE_ID)
     THEN /\ error' = MissingDatabaseIdMessage
          /\ groups' = groupsOnError(<<>>)
          /\ pc' = "rendered"
          /\ UNCHANGED <<fetch, log>>
     ELSE /\ fetch' = [cursor |-> 0, records |-> <<>>]
          /\ log' = [log EXCEPT !.sent = Append(@, 0)]
          /\ pc' = "awaiting"
          /\ UNCHANGED <<error, groups>>
  /\ UNCHANGED <<env, input, chart, reordered, regroups, fullscreen>>

\* A query resolves: its pages are transformed and pushed, and either the
\* next query is sent with the response's cursor, or fetchAllRecords returns
\* and Home groups the records and renders.  The record source answers with
\* the next pages it holds, and with has_more and a cursor while more
\* responses are left.
QueryResolves ==
  /\ pc = "awaiting"
  /\ \E n \in 0..(MaxPages - Len(receivedPages(log.responses))), more \in BOOLEAN :
       \E ps \in [1..n -> PageProperties] :
         LET r == Len(log.sent)
             response == [results |-> [i \in 1..n |-> MkPage(r, i, ps[i])],
                          has_more |-> more,
                          next_cursor |-> IF more THEN r ELSE 0]
             records == pushRecords(fetch.records, response.results)
             cursor == nextCursor(response)
         IN  /\ more => r < MaxResponses
             /\ IF cursor # 0
                THEN /\ fetch' = [cursor |-> cursor, records |-> records]
                     /\ log' = [log EXCEPT !.responses = Append(@, response),
                                           !.sent = Append(@, cursor)]
                     /\ pc' = "awaiting"
                     /\ UNCHANGED <<input, groups>>
                ELSE /\ fetch' = [cursor |-> cursor, records |-> records]
                     /\ input' = records
                     /\ groups' = groupRecords(records)
                     /\ log' = [log EXCEPT !.responses = Append(@, response),
                                           !.groupCalls = @ + 1]
                     /\ pc' = "rendered"
  /\ UNCHANGED <<env, error, chart, reordered, regroups, fullscreen>>

\* A query is rejected: fetchAllRecords throws, Home's catch block sets the
\* error, and Home renders.
QueryRejects ==
  /\ pc = "awaiting"
  /\ \E err \in Thrown : error' = errorMessage(err)
  /\ groups' = groupsOnError(fetch.records)
  /\ log' = [log EXCEPT !.rejected = TRUE]
  /\ pc' = "rendered"
  /\ UNCHANGED <<env, fetch, input, chart, reordered, regroups, fullscreen>>

\* The Retry button of the error view: window.location.reload(), a new
\* request.
Reload ==
  /\ pc = "rendered"
  /\ view(groups, error) = "error"
  /\ pc' = "home"
  /\ input' = <<>>
  /\ groups' = <<>>
  /\ error' = Null
  /\ fetch' = NoFetch
  /\ log' = NoLog
  /\ UNCHANGED <<env, chart, reordered, regroups, fullscreen>>

NextHome == HomeRequest \/ QueryResolves \/ QueryRejects \/ Reload

SpecHome == InitHome /\ [][NextHome]_vars

\* ---------------------------------------------- PressureChart fullscreen
InitFullscreen ==
  /\ \E supported \in BOOLEAN : fullscreen = [NoFullscreen EXCEPT !.supported = supported]
  /\ pc = "mounted"
  /\ input = <<>>
  /\ groups = <<>>
  /\ chart = NoChart
  /\ reordered = <<>>
  /\ regroups = <<>>
  /\ NoRequest

\* A click on the fullscreen button.  Without a fullscreen element the chart
\* asks for fullscreen and sets the flag at once; with one it asks to leave
\* and clears the flag at once.  Where the element has no requestFullscreen
\* the call throws before the flag is set.
toggleFullscreen ==
  /\ pc = "mounted"
  /\ fullscreen.clicks < MaxClicks
  /\ IF ~fullscreen.fullscreenElement
     THEN IF fullscreen.supported
          THEN fullscreen' = [fullscreen EXCEPT !.pending = Append(@, "request"),
                                                !.isFullscreen = TRUE,
                                                !.clicks = @ + 1]
          ELSE fullscreen' = [fullscreen EXCEPT !.clicks = @ + 1]
     ELSE fullscreen' = [fullscreen EXCEPT !.pending = Append(@, "exit"),
                                           !.isFullscreen = FALSE,
                                           !.clicks = @ + 1]
  /\ UNCHANGED <<input, pc, groups, chart, reordered, regroups>>
  /\ UNCHANGED homeVars

\* The browser grants a pending request: the container becomes the
\* fullscreen element and a fullscreenchange event is queued; a request for
\* the element that is the fullscreen element already changes nothing.
RequestGranted ==
  /\ \E i \in 1..Len(fullscreen.pending) :
       /\ fullscreen.pending[i] = "request"
       /\ fullscreen' =
            [fullscreen EXCEPT
               !.fullscreenElement = TRUE,
               !.pending = IF fullscreen.fullscreenElement
                           THEN removeAt(@, i)
                           ELSE Append(removeAt(@, i), "fullscreenchange")]
  /\ UNCHANGED <<input, pc, groups, chart, reordered, regroups>>
  /\ UNCHANGED homeVars

\* The browser refuses a pending request: the promise is rejected and a
\* fullscreenerror event is fired, which the chart does not listen to.
RequestRejected ==
  /\ \E i \in 1..Len(fullscreen.pending) :
       /\ fullscreen.pending[i] = "request"
       /\ fullscreen' = [fullscreen EXCEPT !.pending = removeAt(@, i)]
  /\ UNCHANGED <<input, pc, groups, chart, reordered, regroups>>
  /\ UNCHANGED homeVars

\* The browser carries out a pending document.exitFullscreen(): a document
\* in fullscreen leaves it and a fullscreenchange event is queued; one that
\* is not changes nothing.
ExitCompleted ==
  /\ \E i \in 1..Len(fullscreen.pending) :
       /\ fullscreen.pending[i] = "exit"
       /\ fullscreen' =
            [fullscreen EXCEPT
               !.fullscreenElement = FALSE,
               !.pending = IF fullscreen.fullscreenElement
                           THEN Append(removeAt(@, i), "fullscreenchange")
                           ELSE removeAt(@, i)]
  /\ UNCHANGED <<input, pc, groups, chart, reordered, regroups>>
  /\ UNCHANGED homeVars

\* The user leaves fullscreen by the browser's own means (the Escape key).
BrowserExit ==
  /\ fullscreen.fullscreenElement
  /\ fullscreen' = [fullscreen EXCEPT !.fullscreenElement = FALSE,
                                      !.pending = Append(@, "fullscreenchange")]
  /\ UNCHANGED <<input, pc, groups, chart, reordered, regroups>>
  /\ UNCHANGED homeVars

\* A queued fullscreenchange event reaches the chart's listener, which sets
\* the flag to whether the document has a fullscreen element now.
handleFullscreenChange ==
  /\ \E i \in 1..Len(fullscreen.pending) :
       /\ fullscreen.pending[i] = "fullscreenchange"
       /\ fullscreen' = [fullscreen EXCEPT !.isFullscreen = fullscreen.fullscreenElement,
                                           !.pending = removeAt(@, i)]
  /\ UNCHANGED <<input, pc, groups, chart, reordered, regroups>>
  /\ UNCHANGED homeVars

NextFullscreen ==
  \/ toggleFullscreen
  \/ RequestGranted
  \/ RequestRejected
  \/ ExitCompleted
  \/ BrowserExit
  \/ handleFullscreenChange

SpecFullscreen == InitFullscreen /\ [][NextFullscreen]_vars

\* ------------------------------------------- toChartData on any group
\* Instants of the records of a group handed to toChartData: 15:00 UTC, and
\* 30s, 10h 0m 31s and 30h after it.
ChartStartMs == 15 * HOUR_MS

ChartTimes ==
  {ChartStartMs, ChartStartMs + 30 * 1000,
   ChartStartMs + 10 * HOUR_MS + 31 * 1000, ChartStartMs + 30 * HOUR_MS}

\* The readings of a record, <<left, right>>.
Readings == {<<14, 17>>, <<22, 10>>}

MkChartRecord(i, t, lr, f) ==
  [id |-> i, name |-> "", date |-> toISOString(t),
   left |-> lr[1], right |-> lr[2], is24h |-> f, note |-> ""]

\* A group of either type over any records, in any order; the id is the one
\* groupRecords gives a group of that type and first record.
MkGroup(type, records) ==
  [id |-> IF type = "regular" THEN RegularId
          ELSE IF Len(records) > 0 THEN create24hId(records)
          ELSE <<"2", "4", "h", "-">>,
   type |-> type, records |-> records]

InitChart ==
  /\ \E type \in {"24h", "regular"}, n \in 0..MaxRecords :
       \E ts \in [1..n -> ChartTimes], lr \in [1..n -> Readings] :
         groups = <<MkGroup(type, [i \in 1..n |->
                       MkChartRecord(i, ts[i], lr[i], type = "24h")])>>
  /\ input = <<>>
  /\ pc = "grouped"
  /\ chart = NoChart
  /\ reordered = <<>>
  /\ regroups = <<>>
  /\ NoRequest
  /\ fullscreen = NoFullscreen

NextChart == ToChartData

SpecChart == InitChart /\ [][NextChart]_vars

\* ============================================================ claims
\* groupRecords has returned and its result is at hand.
Grouped == pc = "grouped"

tsOf(record) == getTime(record.date)

Anchor(group) == tsOf(group.records[1])

Hours(n) == n * HOUR_MS

Is24hGroup(k) == groups[k].type = "24h"

\* Where record r sits in the returned groups: <<group index, record index>>.
Places(r) ==
  {kj \in (1..Len(groups)) \X (1..Len(input)) :
     /\ kj[2] <= Len(groups[kj[1]].records)
     /\ groups[kj[1]].records[kj[2]] = r}

Has24h == \E i \in 1..Len(input) : input[i].is24h

HasRegular == \E i \in 1..Len(input) : ~input[i].is24h

\* The timestamps of the is24h records of the input, as a set.
Times24h == {tsOf(input[i]) : i \in {n \in 1..Len(input) : input[n].is24h}}

Count24h == Cardinality({i \in 1..Len(input) : input[i].is24h})

\* The 24h groups returned, each as the sequence of its records' timestamps.
GroupTimes24h ==
  LET gs == SelectSeq(groups, LAMBDA g : g.type = "24h")
  IN  [k \in 1..Len(gs) |->
         [j \in 1..Len(gs[k].records) |-> tsOf(gs[k].records[j])]]

\* C1: in every "24h" group, each record's timestamp minus the timestamp of
\* the group's first record is at least 0 and at most 30 hours.
C1_Within30Hours ==
  Grouped =>
    \A k \in 1..Len(groups) :
      Is24hGroup(k) =>
        \A j \in 1..Len(groups[k].records) :
          LET d == tsOf(groups[k].records[j]) - Anchor(groups[k])
          IN  0 <= d /\ d <= Hours(30)

\* A 24h group holding a record exactly 30 hours after its first, followed by
\* another 24h group.
C1_Witness ==
  /\ Grouped
  /\ \E k \in 1..Len(groups) :
       /\ Is24hGroup(k)
       /\ k < Len(groups)
       /\ \E j \in 1..Len(groups[k].records) :
            tsOf(groups[k].records[j]) - Anchor(groups[k]) = Hours(30)

\* C2: the "24h" groups partition the is24h records of the input: each such
\* record sits at exactly one place of exactly one "24h" group, every record
\* of a "24h" group is an is24h record of the input, and no record of the
\* input sits at two places of the result.
C2_Partition ==
  Grouped =>
    /\ \A i \in 1..Len(input) :
         /\ Cardinality(Places(input[i])) = 1
         /\ input[i].is24h => \A kj \in Places(input[i]) : Is24hGroup(kj[1])
    /\ \A k \in 1..Len(groups) :
         \A j \in 1..Len(groups[k].records) :
           /\ Is24hGroup(k) => groups[k].records[j].is24h
           /\ \E i \in 1..Len(input) : input[i] = groups[k].records[j]

\* A regular record between two is24h records handed over latest first, which
\* end up in two "24h" groups.
C2_Witness ==
  /\ Grouped
  /\ Len(input) = 3
  /\ input[1].is24h /\ ~input[2].is24h /\ input[3].is24h
  /\ tsOf(input[1]) > tsOf(input[3])
  /\ Len(groups) = 3
  /\ Is24hGroup(2) /\ Is24hGroup(3)

\* C3: greedy scan with a fixed anchor: an is24h record belongs to a "24h"
\* group exactly when its timestamp is at or after the group's first record's
\* and at most 30 hours after it; the first record of every "24h" group after
\* the first lies more than 30 hours after the first record of the group
\* before it; T, T+29h59m, T+31h give [T, T+29h59m], [T+31h] and T, T+10h,
\* T+31h give [T, T+10h], [T+31h].
C3_GreedyFixedAnchor ==
  Grouped =>
    /\ \A k \in 1..Len(groups) :
         Is24hGroup(k) =>
           \A i \in 1..Len(input) :
             input[i].is24h =>
               ((\E kj \in Places(input[i]) : kj[1] = k)
                  <=> /\ tsOf(input[i]) >= Anchor(groups[k])
                      /\ tsOf(input[i]) - Anchor(groups[k]) <= Hours(30))
    /\ \A k \in 2..Len(groups) :
         (Is24hGroup(k) /\ Is24hGroup(k - 1)) =>
           Anchor(groups[k]) - Anchor(groups[k - 1]) > Hours(30)
    /\ \A T \in Times :
         /\ (Count24h = 3 /\ Times24h = {T, T + Hours(30) - MINUTE_MS, T + Hours(31)})
              => GroupTimes24h = <<<<T, T + Hours(30) - MINUTE_MS>>, <<T + Hours(31)>>>>
         /\ (Count24h = 3 /\ Times24h = {T, T + Hours(10), T + Hours(31)})
              => GroupTimes24h = <<<<T, T + Hours(10)>>, <<T + Hours(31)>>>>

\* The scenario T, T+29h59m, T+31h, handed over latest first.
C3_Witness ==
  /\ Grouped
  /\ Len(input) = 3
  /\ Count24h = 3
  /\ tsOf(input[1]) = StartMs + Hours(31)
  /\ tsOf(input[2]) = StartMs + Hours(30) - MINUTE_MS
  /\ tsOf(input[3]) = StartMs
  /\ Len(groups) = 2

ClaimedRegularId == <<"r", "e", "g", "u", "l", "a", "r">>

RegularIndexes == {k \in 1..Len(groups) : groups[k].type = "regular"}

\* C4: with a regular record in the input there is exactly one "regular"
\* group, of id "regular", holding all and only the regular records in
\* ascending timestamp order whatever their span; without one there is no
\* "regular" group.
C4_OneRegularGroup ==
  Grouped =>
    IF HasRegular
    THEN /\ Cardinality(RegularIndexes) = 1
         /\ \A k \in RegularIndexes :
              /\ groups[k].id = ClaimedRegularId
              /\ Len(groups[k].records) = Len(input) - Count24h
              /\ {groups[k].records[j] : j \in 1..Len(groups[k].records)}
                   = {input[i] : i \in {n \in 1..Len(input) : ~input[n].is24h}}
              /\ \A j \in 2..Len(groups[k].records) :
                   tsOf(groups[k].records[j - 1]) <= tsOf(groups[k].records[j])
    ELSE RegularIndexes = {}

\* Three regular records spanning 62 hours, handed over latest first.
C4_Witness ==
  /\ Grouped
  /\ Len(input) = 3
  /\ Count24h = 0
  /\ tsOf(input[1]) = StartMs + Hours(62)
  /\ tsOf(input[2]) = StartMs + Hours(31)
  /\ tsOf(input[3]) = StartMs
  /\ Len(groups) = 1
  /\ Len(groups[1].records) = 3

\* C5: the "regular" group, when present, is first, and the "24h" groups
\* come in strictly increasing order of their first record's timestamp.
C5_GroupOrder ==
  Grouped =>
    /\ \A k \in 1..Len(groups) : groups[k].type = "regular" => k = 1
    /\ \A k, l \in 1..Len(groups) :
         (k < l /\ Is24hGroup(k) /\ Is24hGroup(l)) =>
           Anchor(groups[k]) < Anchor(groups[l])

\* The regular record comes last in the input and the is24h records latest
\* first; the result is the regular group and two "24h" groups.
C5_Witness ==
  /\ Grouped
  /\ Len(input) = 3
  /\ input[1].is24h /\ input[2].is24h /\ ~input[3].is24h
  /\ tsOf(input[1]) > tsOf(input[2])
  /\ Len(groups) = 3

\* Every is24h record of the input lies within 30 hours of the earliest one.
OneWindow == \A t, u \in Times24h : t - u <= Hours(30)

\* C6 as stated: regular and continuous records together give exactly two
\* groups, the regular group first.
C6_ExactlyTwoGroups ==
  (Grouped /\ HasRegular /\ Has24h) =>
    /\ Len(groups) = 2
    /\ groups[1].type = "regular"

\* C6, amended: regular and continuous records together give the regular
\* group first and then at least one "24h" group; the groups are exactly two
\* when, and only when, every continuous record lies within 30 hours of the
\* earliest continuous record.
C6_RegularThenWindows ==
  (Grouped /\ HasRegular /\ Has24h) =>
    /\ groups[1].type = "regular"
    /\ Len(groups) >= 2
    /\ \A k \in 2..Len(groups) : Is24hGroup(k)
    /\ (Len(groups) = 2 <=> OneWindow)

\* A regular record and two continuous records 30 hours apart: two groups.
C6_Witness ==
  /\ Grouped
  /\ HasRegular
  /\ Count24h = 2
  /\ Times24h = {StartMs, StartMs + Hours(30)}
  /\ Len(groups) = 2

\* C7: an empty record list gives an empty group list.
C7_EmptyInEmptyOut == (Grouped /\ input = <<>>) => groups = <<>>

\* groupRecords has returned for the empty list.
C7_Witness == pc = "grouped" /\ Len(input) = 0 /\ Len(groups) = 0

\* C8: the ids of the returned groups are pairwise distinct.
C8_DistinctIds ==
  Grouped =>
    \A k, l \in 1..Len(groups) : k # l => groups[k].id # groups[l].id

\* The regular group and two "24h" groups.
C8_Witness ==
  /\ Grouped
  /\ Len(groups) = 3
  /\ groups[1].type = "regular"
  /\ Is24hGroup(2) /\ Is24hGroup(3)

\* No two records of the same mode share a timestamp.
NoTies ==
  \A i, j \in 1..Len(input) :
    (i # j /\ input[i].is24h = input[j].is24h) => tsOf(input[i]) # tsOf(input[j])

\* Where record r sits in list.
PositionIn(list, r) == CHOOSE i \in 1..Len(list) : list[i] = r

\* In every group of gs, records with the same timestamp come in the order
\* they have in list.
TiesInOrderOf(list, gs) ==
  \A k \in 1..Len(gs) :
    \A i, j \in 1..Len(gs[k].records) :
      (i < j /\ tsOf(gs[k].records[i]) = tsOf(gs[k].records[j])) =>
        PositionIn(list, gs[k].records[i]) < PositionIn(list, gs[k].records[j])

\* C9 as stated: the same records in another order give the same sequence of
\* groups, record sequences included.
C9_OrderIndependent == pc = "regrouped" => regroups = groups

\* C9, amended: the same records in another order give the same number of
\* groups with the same ids and types, each holding the same records with the
\* same sequence of timestamps; the record sequences are the same when no two
\* records of the same mode share a timestamp, and records that do share one
\* come in the order the list handed over has them in.
C9_OrderIndependentUpToTies ==
  pc = "regrouped" =>
    /\ Len(regroups) = Len(groups)
    /\ \A k \in 1..Len(groups) :
         /\ regroups[k].id = groups[k].id
         /\ regroups[k].type = groups[k].type
         /\ Len(regroups[k].records) = Len(groups[k].records)
         /\ {regroups[k].records[j] : j \in 1..Len(regroups[k].records)}
              = {groups[k].records[j] : j \in 1..Len(groups[k].records)}
         /\ \A j \in 1..Len(groups[k].records) :
              tsOf(regroups[k].records[j]) = tsOf(groups[k].records[j])
    /\ NoTies => regroups = groups
    /\ TiesInOrderOf(input, groups)
    /\ TiesInOrderOf(reordered, regroups)

\* Three records with different timestamps, regrouped in another order, in
\* two groups.
C9_Witness ==
  /\ pc = "regrouped"
  /\ Len(input) = 3
  /\ NoTies
  /\ Len(groups) = 2
  /\ regroups = groups

Charted == pc = "charted"

\* The group toChartData was handed.
ChartedGroup == groups[chart.group]

\* A group groupRecords returns: grouping its records gives it back.
ProducedByGroupRecords(g) ==
  /\ Len(g.records) > 0
  /\ groupRecords(g.records) = <<g>>

\* C11: toChartData returns one point per record, in the records' order,
\* point i carrying record i's left, right and date string; none for an
\* empty group.
C11_OnePointPerRecord ==
  Charted =>
    /\ Len(chart.points) = Len(ChartedGroup.records)
    /\ \A k \in 1..Len(ChartedGroup.records) :
         /\ chart.points[k].left = ChartedGroup.records[k].left
         /\ chart.points[k].right = ChartedGroup.records[k].right
         /\ chart.points[k].dateStr = ChartedGroup.records[k].date
    /\ ChartedGroup.records = <<>> => chart.points = <<>>

\* Three records with readings that differ, the latest first, charted.
C11_Witness ==
  /\ Charted
  /\ Len(ChartedGroup.records) = 3
  /\ ChartedGroup.records[1].left # ChartedGroup.records[2].left
  /\ ChartedGroup.records[1].left # ChartedGroup.records[1].right
  /\ tsOf(ChartedGroup.records[1]) > tsOf(ChartedGroup.records[3])
  /\ Len(chart.points) = 3

\* C12: the first chart point of a non-empty group has minutesFromStart 0.
C12_FirstPointAtZero ==
  (Charted /\ Len(ChartedGroup.records) > 0) =>
    chart.points[1].minutesFromStart = 0

\* A group whose first record is not its earliest, of the regular type.
C12_Witness ==
  /\ Charted
  /\ ChartedGroup.type = "regular"
  /\ Len(ChartedGroup.records) = 2
  /\ tsOf(ChartedGroup.records[1]) > tsOf(ChartedGroup.records[2])
  /\ chart.points[1].minutesFromStart = 0

\* m is a whole number of minutes nearest to ms milliseconds.
NearestMinute(m, ms) ==
  /\ 2 * (m * 60000 - ms) <= 60000
  /\ 2 * (ms - m * 60000) <= 60000

\* C13: for a group groupRecords produces, each point's minutesFromStart is
\* the time from the group's first record to the point's record rounded to
\* the nearest minute, never negative, and never decreasing along the points.
C13_MinutesFromStart ==
  (Charted /\ ProducedByGroupRecords(ChartedGroup)) =>
    /\ \A k \in 1..Len(chart.points) :
         /\ NearestMinute(chart.points[k].minutesFromStart,
                          tsOf(ChartedGroup.records[k]) - Anchor(ChartedGroup))
         /\ chart.points[k].minutesFromStart >= 0
    /\ \A k \in 2..Len(chart.points) :
         chart.points[k - 1].minutesFromStart <= chart.points[k].minutesFromStart

\* A produced group with records 30s, 10h 0m 31s after its first: 0, 1, 601.
C13_Witness ==
  /\ Charted
  /\ ProducedByGroupRecords(ChartedGroup)
  /\ Len(chart.points) = 3
  /\ chart.points[2].minutesFromStart = 1
  /\ chart.points[3].minutesFromStart = 601

\* C14: every point's average is (left + right) / 2 of its record, unrounded.
C14_ExactAverage ==
  Charted =>
    \A k \in 1..Len(chart.points) :
      /\ chart.points[k].average.half2 \in {0, 1}
      /\ 2 * chart.points[k].average.int + chart.points[k].average.half2
           = ChartedGroup.records[k].left + ChartedGroup.records[k].right

\* A record of readings 14 and 17, of average 15 and a half.
C14_Witness ==
  /\ Charted
  /\ Len(chart.points) >= 1
  /\ ChartedGroup.records[1].left = 14
  /\ ChartedGroup.records[1].right = 17
  /\ chart.points[1].average = [int |-> 15, half2 |-> 1]

TwoDigits(n) == <<DigitChars[(n \div 10) + 1], DigitChars[(n % 10) + 1]>>

\* The local time of day of instant t, as HH:mm.
ClockOf(t, tz) ==
  LET minuteOfDay == ((t + tz) % DAY_MS) \div 60000
  IN  TwoDigits(minuteOfDay \div 60) \o <<":">> \o TwoDigits(minuteOfDay % 60)

\* The local calendar day of instant t, counted from 1970-01-01.
CalendarDay(t, tz) == (t + tz) \div DAY_MS

\* The local calendar date of an instant of January 1970, as YYYY/MM/DD.
JanuaryDate(t, tz) ==
  <<"1", "9", "7", "0", "/", "0", "1", "/">> \o TwoDigits(CalendarDay(t, tz) + 1)

C20_GroupsSortedNonEmpty ==
  Grouped =>
    \A k \in 1..Len(groups) :
      /\ Len(groups[k].records) > 0
      /\ \A j \in 2..Len(groups[k].records) :
           tsOf(groups[k].records[j - 1]) <= tsOf(groups[k].records[j])

\* Three is24h records within one window, handed over latest first.
C20_Witness ==
  /\ Grouped
  /\ Len(input) = 3
  /\ tsOf(input[1]) > tsOf(input[2]) /\ tsOf(input[2]) > tsOf(input[3])
  /\ Len(groups) = 1
  /\ Is24hGroup(1)
  /\ Len(groups[1].records) = 3

\* ------------------------------------------------- claims on the request
\* A page has a date: its Date property holds a value that is a date.
HasDate(page) == page.properties.Date.present /\ page.properties.Date.valid

\* The pages of all responses received that have a date, in page order.
DatedPages == SelectSeq(receivedPages(log.responses), HasDate)

\* A record is the one record of a page: the page's id and values, with the
\* defaults for the values the page does not have.
RecordOf(record, page) ==
  LET props == page.properties
  IN  /\ record.id = page.id
      /\ getTime(record.date) = props.Date.day * DAY_MS + props.Date.ms
      /\ record.name = (IF props.Name.present THEN props.Name.text ELSE "")
      /\ record.note = (IF props.Note.present THEN props.Note.text ELSE "")
      /\ record.left = (IF props.Left.present THEN props.Left.number ELSE 0)
      /\ record.right = (IF props.Right.present THEN props.Right.number ELSE 0)
      /\ record.is24h = (IF props.is24h.present THEN props.is24h.checkbox ELSE FALSE)

\* The records are the records of the dated pages, one each, in page order.
RecordsOfDatedPages(records) ==
  /\ Len(records) = Len(DatedPages)
  /\ \A k \in 1..Len(records) : RecordOf(records[k], DatedPages[k])

\* A value of the configuration is absent: not set, or set to nothing.
Absent(value) == value = "undefined" \/ value = ""

ConfigAbsent == Absent(env.NOTION_DATABASE_ID) \/ Absent(env.NOTION_AUTH_TOKEN)

Rendered == pc = "rendered"

\* C16: whatever pages the responses hold, the records fetchAllRecords has
\* collected are exactly the records of the pages that have a date, one per
\* page, with "" for a missing name or note, 0 for a missing left or right
\* and false for a missing is24h; a page without a Date value gives no
\* record, is in no group, and raises no error: an error is only ever that
\* of the configuration check or of a rejected query.
C16_DatelessPagesDropped ==
  /\ RecordsOfDatedPages(fetch.records)
  /\ error # Null => ConfigAbsent \/ log.rejected
  /\ \A g \in 1..Len(groups) : \A j \in 1..Len(groups[g].records) :
       \E k \in 1..Len(DatedPages) : groups[g].records[j].id = DatedPages[k].id

\* A response of a page without a Date value and then a full page, and a
\* second response of a page with a date alone: two records, rendered.
C16_Witness ==
  /\ Rendered
  /\ error = Null
  /\ Len(log.responses) = 2
  /\ Len(log.responses[1].results) = 2
  /\ log.responses[1].results[1].properties = DatelessPage
  /\ log.responses[1].results[2].properties = DatedPage
  /\ Len(log.responses[2].results) = 1
  /\ log.responses[2].results[1].properties = SparsePage
  /\ Len(input) = 2
  /\ input[2].name = "" /\ input[2].left = 0 /\ input[2].is24h = FALSE
  /\ Len(groups) = 2

\* C17: in a request where NOTION_DATABASE_ID or NOTION_AUTH_TOKEN is
\* absent, no query is ever sent, and the page is rendered with the one
\* configuration error, whichever of the two values is absent.
C17_ConfigCheckedBeforeAnyQuery ==
  ConfigAbsent =>
    /\ log.sent = <<>>
    /\ log.responses = <<>>
    /\ Rendered => error = MissingConfigMessage

\* The database id is set and the credential is not; the page is rendered.
C17_Witness ==
  /\ Rendered
  /\ env.NOTION_DATABASE_ID = "value"
  /\ env.NOTION_AUTH_TOKEN = "undefined"
  /\ error = MissingConfigMessage
  /\ log.sent = <<>>

\* C18: a failure of the configuration check or of a query ends in a
\* rendered page with a non-null error and no groups, without groupRecords
\* being called; no query is sent once there is an error, and the only step
\* from a page rendered with an error is the reload, which starts a new
\* request.
C18_FailureRenderedWithoutRetry ==
  [][/\ (pc # "rendered" /\ (log'.rejected \/ (ConfigAbsent /\ pc = "home"))) =>
          /\ pc' = "rendered"
          /\ error' # Null
          /\ groups' = <<>>
          /\ log'.groupCalls = 0
     /\ (pc' = "rendered" /\ error' # Null) => groups' = <<>>
     /\ Len(log'.sent) > Len(log.sent) => error = Null /\ pc # "rendered"
     /\ (pc = "rendered" /\ error # Null) =>
          /\ pc' = "home"
          /\ error' = Null
          /\ log' = NoLog
          /\ groups' = <<>>]_vars

\* A query is rejected after a response that gave two records: the page
\* shows the error of the rejection and no group.
C18_Witness ==
  /\ Rendered
  /\ log.rejected
  /\ Len(log.responses) = 1
  /\ Len(fetch.records) = 2
  /\ error = "Request to Notion API failed"
  /\ groups = <<>>
  /\ view(groups, error) = "error"

\* C19: the first query has no cursor and every later one the next_cursor
\* of the response before it, which reported has_more; every response that
\* reports has_more is followed by one more query, and a response that does
\* not is the last and ends the request; groupRecords is called at most
\* once, only when the last response has been received, on the records of
\* all pages in page order, and exactly once in a request that succeeds.
C19_AllPagesBeforeGrouping ==
  LET sent == log.sent
      responses == log.responses
  IN  /\ Len(sent) > 0 => sent[1] = 0
      /\ Len(sent) - Len(responses) \in {0, 1}
      /\ \A k \in 2..Len(sent) :
           responses[k - 1].has_more /\ sent[k] = responses[k - 1].next_cursor
      /\ \A k \in 1..Len(responses) :
           IF responses[k].has_more
           THEN Len(sent) > k
           ELSE k = Len(responses) /\ Len(sent) = k /\ Rendered
      /\ log.groupCalls <= 1
      /\ log.groupCalls = 1 =>
           /\ Len(responses) > 0
           /\ ~responses[Len(responses)].has_more
           /\ RecordsOfDatedPages(input)
           /\ groups = groupRecords(input)
      /\ (Rendered /\ error = Null) => log.groupCalls = 1
      /\ ~Rendered => log.groupCalls = 0 /\ groups = <<>>

\* Two responses, the first with has_more, three records in all, grouped.
C19_Witness ==
  /\ Rendered
  /\ error = Null
  /\ Len(log.sent) = 2
  /\ Len(log.responses) = 2
  /\ log.responses[1].has_more
  /\ Len(log.responses[1].results) = 1
  /\ Len(input) = 3
  /\ log.groupCalls = 1
  /\ Len(groups) > 0

\* --------------------------------------------- claims on the fullscreen
\* Neither a request nor an exit nor an event is pending.
NothingPending == fullscreen.pending = <<>>

\* C21: once nothing is pending, isFullscreen equals whether the document
\* has a fullscreen element; so the flag does not stay true while the chart
\* is not in fullscreen.
C21_FlagMatchesFullscreen ==
  NothingPending => fullscreen.isFullscreen = fullscreen.fullscreenElement

\* One click, and the browser refuses the request: nothing is pending, the
\* flag is true and the document has no fullscreen element.
C21_Witness ==
  /\ NothingPending
  /\ fullscreen.clicks = 1
  /\ fullscreen.isFullscreen
  /\ ~fullscreen.fullscreenElement

====
